---- MODULE Spec2Model ----
(***************************************************************************)
(* Calibration of the chess-piece sounds of scripts/gen-sounds.py: the     *)
(* cost function, the two optimizer runs with their per-generation         *)
(* callbacks, and the cache of the winning parameters.                     *)
(*                                                                         *)
(* Units.  Costs are integers in units of 1e-4 (0.01 is 100).  Time is in  *)
(* whole seconds.  Parameter vectors are integers in units of 1e-4         *)
(* (690 Hz is 6900000, 0.0005 s is 5).                                     *)
(***************************************************************************)
EXTENDS Integers, Sequences, FiniteSets, TLC

VARIABLES
    pc,             \* "idle" | "de_loop" (between generations) | "assigned" (the
                    \* optimizer has returned and the globals are assigned)
    caller,         \* the top-level call that is waiting for _ensure_optimized
    sound,          \* which optimization is running: "move" | "capture" | "none"
    obj,            \* the objective closure of the running optimization
    energy,         \* the solver's lowest population energy (cost of its best member)
    nit,            \* generations completed by the running solver
    xk,             \* the vector the driver evaluated last (x0, then the callback's xk)
    best_cost,      \* best_cost[0]
    plateau_check,  \* the list plateau_check
    elapsed,        \* time.monotonic() - t0
    cb_ret,         \* what the callback returned last: "None" | "True"
    log_plateau,    \* generation of the "plateau detected" log line, 0 if none
    status,         \* the solver's status message
    result,         \* the solver's OptimizeResult (x, fun, nit), None while it runs
    opt_runs,       \* how often each optimization was started
    MOVE_PARAMS, MOVE_CHAIN, CAPTURE_CLACK, CAPTURE_THUD, CAPTURE_CHAIN,
    rendered,       \* the parameters the last move()/capture() rendered from
    exc,            \* the exception the current or last call or check raised
    verify_log,     \* labels the verification loop marked out of range
    repro,          \* two runs of one calibration side by side, None when unused
    range_call,     \* a call of _range_cost: its arguments and its value
    call            \* a call of another function on its own: its name, its
                    \* arguments and what it has computed; None when unused

vars == <<pc, caller, sound, obj, energy, nit, xk, best_cost, plateau_check,
          elapsed, cb_ret, log_plateau, status, result, opt_runs,
          MOVE_PARAMS, MOVE_CHAIN, CAPTURE_CLACK, CAPTURE_THUD, CAPTURE_CHAIN,
          rendered, exc, verify_log, repro, range_call, call>>

run_vars == <<sound, obj, energy, nit, xk, best_cost, plateau_check, elapsed,
              cb_ret, log_plateau, status, result>>

cache_vars == <<MOVE_PARAMS, MOVE_CHAIN, CAPTURE_CLACK, CAPTURE_THUD, CAPTURE_CHAIN>>

program_vars == <<pc, caller, run_vars, opt_runs, cache_vars, rendered, exc,
                  verify_log>>

call_vars == <<repro, range_call, call>>

----------------------------------------------------------------------------
(* Program constants *)

Inf == 1000000000                \* float("inf"): above every cost
None == [none |-> TRUE]

SuccessThreshold == 100          \* 0.01
TimeBudget == 120                \* seconds
PlateauWindow == 20              \* generations
PlateauPercent == 1              \* 0.01 as a percentage
maxiter == 500

MOVE_DUR == 2500                 \* 0.25 s
CLACK_DUR == 800                 \* 0.08 s
THUD_DUR == 2000                 \* 0.20 s

_SYNTH_BOUNDS ==
    << <<2000000, 15000000>>,    \* body_freq (200, 1500)
       <<1000, 9500>>,           \* noise_level (0.1, 0.95)
       <<8000000, 100000000>>,   \* brightness (800, 10000)
       <<500, 9900>>,            \* mode_spread (0.05, 0.99)
       <<100, 1000>>,            \* onset (0.01, 0.10)
       <<5, 200>>,               \* decay_tau (0.0005, 0.02)
       <<2000, 8000>> >>         \* decay_beta (0.2, 0.8)

_CHAIN_BOUNDS ==
    << <<400000, 2000000>>,      \* hpf_cutoff (40, 200)
       <<40000000, 160000000>>,  \* lpf_cutoff (4000, 16000)
       <<5000, 80000>> >>        \* gain_db (0.5, 8.0)

_CHAIN_X0 == <<800000, 80000000, 20000>>

_MOVE_X0 == <<6900000, 2000, 15000000, 2000, 550, 20, 4000>> \o _CHAIN_X0

_CAPTURE_X0 ==
    <<14000000, 4000, 40000000, 4000, 300, 30, 4500,
      6000000, 3000, 15000000, 2000, 100, 40, 4500>> \o _CHAIN_X0

Sounds == {"move", "capture"}

bounds(s) ==
    IF s = "move" THEN _SYNTH_BOUNDS \o _CHAIN_BOUNDS
    ELSE _SYNTH_BOUNDS \o _SYNTH_BOUNDS \o _CHAIN_BOUNDS

\* the two warm starts exchanged
X0_exchanged(s) == IF s = "move" THEN _CAPTURE_X0 ELSE _MOVE_X0

X0(s) == IF s = "move" THEN _MOVE_X0 ELSE _CAPTURE_X0

----------------------------------------------------------------------------
(* Unpacking of the flat optimizer vector *)

_make_wood(x, dur) ==
    [body_freq |-> x[1], dur |-> dur, noise_level |-> x[2], brightness |-> x[3],
     mode_spread |-> x[4], onset |-> x[5], decay_tau |-> x[6], decay_beta |-> x[7]]

_make_chain(hpf, lpf_cut, gn) == [hpf |-> hpf, lpf_cut |-> lpf_cut, gn |-> gn]

\* Python's x[a:b], zero-based and half-open
Slice(x, a, b) == SubSeq(x, a + 1, b)

\* the durations written in the return paths, 0.25, 0.08 and 0.20 seconds
MOVE_RETURN_DUR == 2500
CLACK_RETURN_DUR == 800
THUD_RETURN_DUR == 2000

MoveReturn(x) ==
    [params |-> _make_wood(x, MOVE_RETURN_DUR),
     chain |-> _make_chain(Slice(x, 7, 10)[1], Slice(x, 7, 10)[2], Slice(x, 7, 10)[3])]

CaptureReturn(x) ==
    [clack_p |-> _make_wood(Slice(x, 0, 7), CLACK_RETURN_DUR),
     thud_p |-> _make_wood(Slice(x, 7, 14), THUD_RETURN_DUR),
     chain |-> _make_chain(Slice(x, 14, 17)[1], Slice(x, 14, 17)[2], Slice(x, 14, 17)[3])]

\* *x[a:b] handed to _make_chain
star_chain(c) == _make_chain(c[1], c[2], c[3])

\* the capture objective reading the two layers from each other's slice
objective_inputs_exchanged(s, x) ==
    IF s = "move"
    THEN [params |-> _make_wood(x, MOVE_DUR),
          chain |-> star_chain(Slice(x, 7, 10))]
    ELSE [clack_p |-> _make_wood(Slice(x, 7, 14), CLACK_DUR),
          thud_p |-> _make_wood(Slice(x, 0, 7), THUD_DUR),
          chain |-> star_chain(Slice(x, 14, 17))]

\* What objective(x) builds from the vector before it synthesizes: lines
\* 605-606 for move, 655-657 for capture
objective_inputs(s, x) ==
    IF s = "move"
    THEN [params |-> _make_wood(x, MOVE_DUR),
          chain |-> star_chain(Slice(x, 7, 10))]
    ELSE [clack_p |-> _make_wood(Slice(x, 0, 7), CLACK_DUR),
          thud_p |-> _make_wood(Slice(x, 7, 14), THUD_DUR),
          chain |-> star_chain(Slice(x, 14, 17))]

----------------------------------------------------------------------------
(* The per-generation callbacks *)

\* (old - best) / old < 0.01, as IEEE arithmetic decides it: with old = inf the
\* quotient is NaN and the comparison is false
\* the comparison written with <= for <
improved_less_or_equal(old, best) ==
    IF old = Inf THEN FALSE
    ELSE 100 * (old - best) <= PlateauPercent * old

improved_less(old, best) ==
    IF old = Inf THEN FALSE
    ELSE 100 * (old - best) < PlateauPercent * old

_move_cb(cost, best, hist, el) ==
    LET b == IF cost < best THEN cost ELSE best
        h == Append(hist, b)
        early == b < SuccessThreshold \/ el > TimeBudget
        flat == /\ Len(h) >= PlateauWindow
                /\ h[Len(h) - PlateauWindow + 1] > 0
                /\ improved_less(h[Len(h) - PlateauWindow + 1], b)
    IN  [best |-> b, hist |-> h,
         ret |-> IF early \/ flat THEN "True" ELSE "None",
         logged |-> IF ~early /\ flat THEN Len(h) ELSE 0]

\* the time test written with >= for >
_cap_cb_time_ge(cost, best, hist, el) ==
    LET b == IF cost < best THEN cost ELSE best
        h == Append(hist, b)
        early == b < SuccessThreshold \/ el >= TimeBudget
        flat == /\ Len(h) >= PlateauWindow
                /\ h[Len(h) - PlateauWindow + 1] > 0
                /\ improved_less(h[Len(h) - PlateauWindow + 1], b)
    IN  [best |-> b, hist |-> h,
         ret |-> IF early \/ flat THEN "True" ELSE "None",
         logged |-> IF ~early /\ flat THEN Len(h) ELSE 0]

_cap_cb(cost, best, hist, el) ==
    LET b == IF cost < best THEN cost ELSE best
        h == Append(hist, b)
        early == b < SuccessThreshold \/ el > TimeBudget
        flat == /\ Len(h) >= PlateauWindow
                /\ h[Len(h) - PlateauWindow + 1] > 0
                /\ improved_less(h[Len(h) - PlateauWindow + 1], b)
    IN  [best |-> b, hist |-> h,
         ret |-> IF early \/ flat THEN "True" ELSE "None",
         logged |-> IF ~early /\ flat THEN Len(h) ELSE 0]

callback(s, cost, best, hist, el) ==
    IF s = "move" THEN _move_cb(cost, best, hist, el) ELSE _cap_cb(cost, best, hist, el)

----------------------------------------------------------------------------
(* The objective and the solver, as the driver sees them *)

Tick == 120                      \* seconds one generation may take
DescentStart == 3000             \* cost of x0 under the steadily improving objective
DescentStep == 2                 \* its improvement per generation

TickChoices == {0, Tick, Tick + 1}

\* time.monotonic() - t0 after a generation that took d seconds; what lies beyond
\* the budget is not told apart
clock(el, d) == IF el + d > TimeBudget THEN TimeBudget + 1 ELSE el + d

\* Costs the search may meet: 0.995 improves on 1.0 by less than 1%, 0.99 by
\* exactly 1%, 0.005 is below the success threshold
SearchLevels == {{10000, 9950, 50}, {10000, 9900, 50}}
FlatCosts == {10000, 100, 50}

\* An objective is a pure function of the vector.  Three families are modelled:
\* one whose best cost moves down through a set of levels as the search finds
\* better vectors, one that returns the same cost for every vector, and one along
\* which every generation finds a slightly better vector.  c is the cost of x0.
Objectives ==
    {[kind |-> "search", levels |-> L, c |-> c] : L \in SearchLevels, c \in {10000}}
      \cup {[kind |-> "flat", levels |-> {c}, c |-> c] : c \in FlatCosts}
      \cup {[kind |-> "descent", levels |-> {}, c |-> DescentStart]}

\* The lowest population energy after generation g: never above the previous one
\* (selection keeps a member unless the trial is at least as good)
BestEnergies(o, prev, g) ==
    CASE o.kind = "flat" -> {o.c}
      [] o.kind = "descent" -> {DescentStart - DescentStep * g}
      [] OTHER -> {c \in o.levels : c <= prev}

\* The highest population energy: the lowest one under a flat objective, and
\* above it in a generation that has just found a better vector
WorstEnergies(o, lo) ==
    CASE o.kind = "flat" -> {lo}
      [] o.kind = "descent" -> {o.c}
      [] OTHER -> {lo, 2 * o.c}

LowerCorner(s) == [i \in 1..Len(bounds(s)) |-> bounds(s)[i][1]]
UpperCorner(s) == [i \in 1..Len(bounds(s)) |-> bounds(s)[i][2]]

\* The member that replaces the best member x when a better one is found
better(s, x) == IF x = LowerCorner(s) THEN UpperCorner(s) ELSE LowerCorner(s)

\* tol=1e-10, atol=0: std(energies) <= tol * |mean(energies)|, and never with an
\* infinite energy.  The modelled costs differ by far more than 1e-10 relative,
\* so the population has converged exactly when its energies are all equal.
\* a convergence test that is never met
converged_never(lo, hi) == FALSE

converged(lo, hi) == hi # Inf /\ lo = hi

\* One pass of the solver's loop: evolve one generation, call the callback with
\* the best member, then decide whether to go on
\* the cap tested one generation late
solver_status_late_cap(ret, lo, hi, n) ==
    IF ret = "True" THEN "callback function requested stop early"
    ELSE IF converged(lo, hi) THEN "Optimization terminated successfully."
    ELSE IF n > maxiter THEN "Maximum number of iterations has been exceeded."
    ELSE "in progress"

solver_status(ret, lo, hi, n) ==
    IF ret = "True" THEN "callback function requested stop early"
    ELSE IF converged(lo, hi) THEN "Optimization terminated successfully."
    ELSE IF n >= maxiter THEN "Maximum number of iterations has been exceeded."
    ELSE "in progress"

----------------------------------------------------------------------------
(* Actions *)

Fns == {"move", "capture", "_ensure_optimized", "__main__"}

NoRun ==
    /\ sound' = "none" /\ obj' = None /\ energy' = Inf /\ nit' = 0 /\ xk' = <<>>
    /\ best_cost' = Inf /\ plateau_check' = <<>> /\ elapsed' = 0
    /\ cb_ret' = "None" /\ log_plateau' = 0 /\ status' = "none" /\ result' = None

\* Lines 601-617 / 651-668: t0, the closure, the logged cost of x0, the progress
\* records; and the solver's start from x0
OptimizeStart(s) ==
    \E o \in Objectives :
        /\ sound' = s
        /\ obj' = o
        /\ energy' = o.c
        /\ xk' = X0(s)
        /\ nit' = 0
        /\ best_cost' = Inf
        /\ plateau_check' = <<>>
        /\ elapsed' = 0
        /\ cb_ret' = "None"
        /\ log_plateau' = 0
        /\ status' = "in progress"
        /\ result' = None
        /\ opt_runs' = [opt_runs EXCEPT ![s] = @ + 1]

Labels == {"move", "capture"}

\* a verification loop that stops the script at a feature out of range
verify_outcome_abort(bad) == IF bad = {} THEN "none" ELSE "AssertionError"

\* Lines 827-840: one mark per feature of each label; bad holds the labels
\* with a feature out of range.  The loop only logs.
verify_outcome(bad) == "none"

\* What the caller does once _ensure_optimized has returned: its asserts, then
\* wood_hit of the cached parameters; the script itself goes through its
\* verification loop, where the metrics of any label may be out of range
Render(fn, mp, mc, cc, ct, chn) ==
    CASE fn = "move" ->
            /\ IF mp # None
               THEN rendered' = [fn |-> "move", layers |-> <<mp>>] /\ exc' = "none"
               ELSE rendered' = rendered /\ exc' = "AssertionError"
            /\ verify_log' = verify_log
      [] fn = "capture" ->
            /\ IF cc # None /\ ct # None
               THEN rendered' = [fn |-> "capture", layers |-> <<cc, ct>>]
                    /\ exc' = "none"
               ELSE rendered' = rendered /\ exc' = "AssertionError"
            /\ verify_log' = verify_log
      [] fn = "__main__" ->
            IF mp # None /\ mc # None /\ cc # None /\ ct # None /\ chn # None
            THEN /\ rendered' = [fn |-> "__main__", layers |-> <<mp, cc, ct>>]
                 /\ \E bad \in SUBSET Labels :
                       verify_log' = bad /\ exc' = verify_outcome(bad)
            ELSE /\ rendered' = rendered /\ verify_log' = verify_log
                 /\ exc' = "AssertionError"
      [] OTHER -> rendered' = rendered /\ exc' = "none" /\ verify_log' = verify_log

\* an _ensure_optimized that never finds the cache filled
needs_optimizing_always(mp) == TRUE

\* _ensure_optimized's test of the cache
needs_optimizing(mp) == mp = None

\* A call of move(), capture() or _ensure_optimized() that finds the cache filled
CallCached(fn) ==
    /\ pc = "idle"
    /\ ~needs_optimizing(MOVE_PARAMS)
    /\ Render(fn, MOVE_PARAMS, MOVE_CHAIN, CAPTURE_CLACK, CAPTURE_THUD, CAPTURE_CHAIN)
    /\ UNCHANGED <<pc, caller, run_vars, opt_runs, cache_vars, call_vars>>

\* A call that finds it empty: _optimize_move begins
CallOptimize(fn) ==
    /\ pc = "idle"
    /\ needs_optimizing(MOVE_PARAMS)
    /\ caller' = fn
    /\ pc' = "de_loop"
    /\ OptimizeStart("move")
    /\ exc' = "none"
    /\ UNCHANGED <<cache_vars, rendered, verify_log, call_vars>>

\* The polishing step keeps the best member or replaces it by a slightly better
\* vector inside the bounds
Polished(s, o, x, e) ==
    {[x |-> x, fun |-> e]}
      \cup {[x |-> better(s, x), fun |-> c] :
               c \in {k \in o.levels : k < e /\ k >= SuccessThreshold}}

\* Lines 644-646 / 695-698 with 711 / 712: the vector is unpacked and the
\* returned values are assigned to the globals
assign(s, x) ==
    IF s = "move"
    THEN /\ MOVE_PARAMS' = MoveReturn(x).params
         /\ MOVE_CHAIN' = MoveReturn(x).chain
         /\ UNCHANGED <<CAPTURE_CLACK, CAPTURE_THUD, CAPTURE_CHAIN>>
    ELSE /\ CAPTURE_CLACK' = CaptureReturn(x).clack_p
         /\ CAPTURE_THUD' = CaptureReturn(x).thud_p
         /\ CAPTURE_CHAIN' = CaptureReturn(x).chain
         /\ UNCHANGED <<MOVE_PARAMS, MOVE_CHAIN>>

\* a callback that writes the warm start over the vector it was handed
xk_overwritten(s, x) == X0(s)

\* The solver's best vector once the callback has returned: objective(xk) reads
\* xk and the callback assigns only to best_cost[0], plateau_check and pbar
xk_after_callback(s, x) == x

\* One pass of the solver's loop for a run in state q (nit, energy, xk, best_cost,
\* plateau_check, elapsed): the generation took d seconds, left the population
\* with lowest energy e and highest energy w, and polishing would return p
generation(s, o, q, d, e, w, p) ==
    LET el == clock(q.elapsed, d)
        r == callback(s, e, q.best_cost, q.plateau_check, el)
        st == solver_status(r.ret, e, w, q.nit + 1)
    IN  [nit |-> q.nit + 1,
         elapsed |-> el,
         energy |-> e,
         xk |-> xk_after_callback(s, IF e < q.energy THEN better(s, q.xk)
                                      ELSE q.xk),
         best_cost |-> r.best,
         plateau_check |-> r.hist,
         cb_ret |-> r.ret,
         log_plateau |-> r.logged,
         status |-> st,
         result |-> IF st = "in progress" THEN None
                    ELSE [x |-> p.x, fun |-> p.fun, nit |-> q.nit + 1]]

\* One generation of differential_evolution with its callback; when the solver
\* leaves its loop: the polishing step, the return and the assignment
Generation ==
    /\ pc = "de_loop"
    /\ nit < maxiter
    /\ \E d \in TickChoices, e \in BestEnergies(obj, energy, nit + 1) :
       \E w \in WorstEnergies(obj, e),
          p \in Polished(sound, obj, IF e < energy THEN better(sound, xk) ELSE xk, e) :
         \E n \in {generation(sound, obj,
                               [nit |-> nit, energy |-> energy, xk |-> xk,
                                best_cost |-> best_cost,
                                plateau_check |-> plateau_check,
                                elapsed |-> elapsed], d, e, w, p)} :
             /\ nit' = n.nit
             /\ elapsed' = n.elapsed
             /\ energy' = n.energy
             /\ xk' = n.xk
             /\ best_cost' = n.best_cost
             /\ plateau_check' = n.plateau_check
             /\ cb_ret' = n.cb_ret
             /\ log_plateau' = n.log_plateau
             /\ status' = n.status
             /\ result' = n.result
             /\ IF n.status = "in progress"
                THEN pc' = "de_loop" /\ UNCHANGED cache_vars
                ELSE pc' = "assigned" /\ assign(sound, n.result.x)
    /\ UNCHANGED <<caller, sound, obj, opt_runs, rendered, exc, verify_log, call_vars>>

\* Line 712 after 711: _optimize_capture begins
StartCapture ==
    /\ pc = "assigned"
    /\ sound = "move"
    /\ pc' = "de_loop"
    /\ OptimizeStart("capture")
    /\ UNCHANGED <<caller, cache_vars, rendered, exc, verify_log, call_vars>>

\* _ensure_optimized returns to the call that was waiting for it
Return ==
    /\ pc = "assigned"
    /\ sound = "capture"
    /\ pc' = "idle"
    /\ caller' = "none"
    /\ Render(caller, MOVE_PARAMS, MOVE_CHAIN, CAPTURE_CLACK, CAPTURE_THUD,
              CAPTURE_CHAIN)
    /\ NoRun
    /\ UNCHANGED <<opt_runs, cache_vars, call_vars>>

ProgramInit ==
    /\ pc = "idle"
    /\ caller = "none"
    /\ sound = "none" /\ obj = None /\ energy = Inf /\ nit = 0 /\ xk = <<>>
    /\ best_cost = Inf /\ plateau_check = <<>> /\ elapsed = 0
    /\ cb_ret = "None" /\ log_plateau = 0 /\ status = "none" /\ result = None
    /\ opt_runs = [s \in Sounds |-> 0]
    /\ MOVE_PARAMS = None /\ MOVE_CHAIN = None
    /\ CAPTURE_CLACK = None /\ CAPTURE_THUD = None /\ CAPTURE_CHAIN = None
    /\ rendered = None
    /\ exc = "none"
    /\ verify_log = {}

Init == ProgramInit /\ repro = None /\ range_call = None /\ call = None

Next ==
    \/ \E fn \in Fns : CallCached(fn)
    \/ \E fn \in Fns : CallOptimize(fn)
    \/ Generation
    \/ StartCapture
    \/ Return

Spec == Init /\ [][Next]_vars

----------------------------------------------------------------------------
(* Two runs of _optimize_move with the same seed, bounds, warm start and target
   ranges, generation by generation side by side, each with its own clock *)

RunIds == {1, 2}

\* The objectives the two runs are compared under: those that end a run within a
\* few dozen generations
ReproObjectives == {o \in Objectives : o.kind # "descent"}

\* What the two clocks add in one generation: at most one of the runs is slow
ReproTicks == {d \in [RunIds -> {0, Tick}] : d[1] = 0 \/ d[2] = 0}

\* a solver that draws without the fixed seed: a later run finds any of the
\* energies its own population could have
unseeded(i, first, own) == IF i = 1 THEN {first} ELSE own

\* seed=960 and the fixed seed of pink_noise: the population of generation g, and
\* so its energies, are the same in every run; first is what the seed gives
seeded(i, first, own) == {first}

ReproStart(o) ==
    [obj |-> o,
     run |-> [i \in RunIds |->
                [nit |-> 0, elapsed |-> 0, energy |-> o.c, xk |-> X0("move"),
                 best_cost |-> Inf, plateau_check |-> <<>>, cb_ret |-> "None",
                 log_plateau |-> 0, status |-> "in progress", result |-> None]]]

InitRepro ==
    /\ ProgramInit
    /\ repro \in {ReproStart(o) : o \in ReproObjectives}
    /\ range_call = None
    /\ call = None

Running(i) == repro.run[i].status = "in progress"

\* Every run still in its loop makes its next generation
ReproGeneration ==
    /\ repro # None
    /\ \E lead \in {i \in RunIds : Running(i)} :
         /\ \A j \in RunIds : Running(j) => lead <= j
         /\ repro.run[lead].nit < maxiter
         /\ \E first \in BestEnergies(repro.obj, repro.run[lead].energy,
                                      repro.run[lead].nit + 1),
               d \in ReproTicks :
            \E e \in [RunIds -> BestEnergies(repro.obj, Inf, 0)],
               w \in WorstEnergies(repro.obj, first),
               p \in Polished("move", repro.obj,
                              IF first < repro.run[lead].energy
                              THEN better("move", repro.run[lead].xk)
                              ELSE repro.run[lead].xk, first) :
              /\ \A i \in RunIds :
                    e[i] \in seeded(i, first,
                                    BestEnergies(repro.obj, repro.run[i].energy,
                                                 repro.run[i].nit + 1))
              /\ repro' = [repro EXCEPT !.run =
                             [i \in RunIds |->
                                IF Running(i)
                                THEN generation("move", repro.obj, repro.run[i],
                                                d[i], e[i], w, p)
                                ELSE repro.run[i]]]
    /\ UNCHANGED <<pc, caller, run_vars, opt_runs, cache_vars, rendered, exc,
                   verify_log, range_call, call>>

SpecRepro == InitRepro /\ [][ReproGeneration]_vars

----------------------------------------------------------------------------
(* _range_cost, in exact arithmetic.  Feature values and range ends are whole
   numbers of a grid on which every range end is even, so that every midpoint is
   a value of the grid; the 1e-10 of the scale is 1/EpsDen of a grid step.  A
   cost is a fraction num/den. *)

RangeMax == 1
EpsDen == 2

Keys == <<"f_centroid", "t_centroid">>

RangeEnds == {2 * i : i \in (0 - RangeMax)..RangeMax}
FeatureValues == (0 - 2 * RangeMax - 2)..(2 * RangeMax + 2)

\* A reference mapping: per key (lo, hi) with lo <= hi, as _ref_range returns it
Refs ==
    {r \in [{Keys[i] : i \in 1..Len(Keys)} -> RangeEnds \X RangeEnds] :
        \A i \in 1..Len(Keys) : r[Keys[i]][1] <= r[Keys[i]][2]}

\* The metrics of a rendered sound
Actuals == [{Keys[i] : i \in 1..Len(Keys)} -> FeatureValues]

Abs(n) == IF n < 0 THEN 0 - n ELSE n

\* the scale taken from the width of the range, not from its midpoint
scale_of_span(lo, hi) == EpsDen * ((hi - lo) \div 2) + 1

\* abs((lo + hi) / 2) + 1e-10, times EpsDen
scale(lo, hi) == EpsDen * Abs((lo + hi) \div 2) + 1

\* a penalty for values below the range only
penalty_below_only(val, lo, hi) ==
    IF val < lo THEN (EpsDen * (lo - val)) * (EpsDen * (lo - val)) ELSE 0

\* What one key adds to total, times scale squared: the two branches of the if
penalty(val, lo, hi) ==
    IF val < lo THEN (EpsDen * (lo - val)) * (EpsDen * (lo - val))
    ELSE IF val > hi THEN (EpsDen * (val - hi)) * (EpsDen * (val - hi))
    ELSE 0

\* total after the first i keys of ref.items()
RECURSIVE total(_, _, _)
total(actual, ref, i) ==
    IF i = 0 THEN [num |-> 0, den |-> 1]
    ELSE LET t == total(actual, ref, i - 1)
             lo == ref[Keys[i]][1]
             hi == ref[Keys[i]][2]
             s2 == scale(lo, hi) * scale(lo, hi)
         IN  [num |-> t.num * s2 + penalty(actual[Keys[i]], lo, hi) * t.den,
              den |-> t.den * s2]

_range_cost(actual, ref) == total(actual, ref, Len(Keys))

Inside(val, range) == range[1] <= val /\ val <= range[2]

\* The objective's call of _range_cost on the metrics of a rendered sound
RangeCost ==
    /\ range_call # None
    /\ range_call.total = None
    /\ range_call' = [range_call EXCEPT
                        !.total = _range_cost(range_call.actual, range_call.ref)]
    /\ UNCHANGED <<pc, caller, run_vars, opt_runs, cache_vars, rendered, exc,
                   verify_log, repro, call>>

\* The next evaluation, of a sound whose one feature k out of range lies
\* further beyond the boundary it violates, the other features as they were
MoveAway(k, v) ==
    /\ range_call # None
    /\ range_call.total # None
    /\ ~Inside(range_call.actual[k], range_call.ref[k])
    /\ \/ v < range_call.actual[k] /\ range_call.actual[k] < range_call.ref[k][1]
       \/ v > range_call.actual[k] /\ range_call.actual[k] > range_call.ref[k][2]
    /\ range_call' =
          [ref |-> range_call.ref,
           actual |-> [range_call.actual EXCEPT ![k] = v],
           total |-> _range_cost([range_call.actual EXCEPT ![k] = v],
                                 range_call.ref),
           before |-> [actual |-> range_call.actual, total |-> range_call.total,
                       key |-> k]]
    /\ UNCHANGED <<pc, caller, run_vars, opt_runs, cache_vars, rendered, exc,
                   verify_log, repro, call>>

InitCost ==
    /\ ProgramInit
    /\ repro = None
    /\ call = None
    /\ range_call \in {[ref |-> r, actual |-> a, total |-> None, before |-> None] :
                         r \in Refs, a \in Actuals}

NextCost ==
    \/ RangeCost
    \/ \E k \in DOMAIN range_call.actual, v \in FeatureValues : MoveAway(k, v)

SpecCost == InitCost /\ [][NextCost]_vars

----------------------------------------------------------------------------
(* The reference ranges.  Measured values are integers in units of 1e-4; the
   ends _ref_range returns are in units of 1e-4 / REF_TOLERANCE_INV, in which
   the margin is a whole number. *)

REF_TOLERANCE_INV == 10          \* REF_TOLERANCE = 0.10 is one in ten

RefMax == 3
MaxReads == 2

Min(a, b) == IF a <= b THEN a ELSE b
Max(a, b) == IF a >= b THEN a ELSE b

\* a margin taken from lo itself, without abs and without the span
margin_of_lo(lo, hi) == lo

\* max(span * REF_TOLERANCE, abs(lo) * REF_TOLERANCE), times REF_TOLERANCE_INV
margin(lo, hi) == Max(hi - lo, Abs(lo))

_ref_range(a, b) ==
    LET lo == Min(a, b)
        hi == Max(a, b)
    IN  <<REF_TOLERANCE_INV * lo - margin(lo, hi),
          REF_TOLERANCE_INV * hi + margin(lo, hi)>>

FeatureKeys ==
    <<"f_centroid", "f_spread", "f_skewness", "f_kurtosis",
      "t_centroid", "t_spread", "t_skewness", "t_kurtosis">>

\* The two measurements behind each key of MOVE_REF and of CAPTURE_REF
MOVE_MEASURED ==
    << <<6351000, 7443000>>, <<6374, 6454>>, <<-28700, -6800>>, <<9300, 144600>>,
       <<552000, 621000>>, <<22000, 35000>>, <<51000, 97500>>,
       <<835700, 1660400>> >>

CAPTURE_MEASURED ==
    << <<11361000, 12318000>>, <<8339, 9915>>, <<-18900, -4700>>, <<17000, 54300>>,
       <<630000, 663000>>, <<58000, 96000>>, <<28200, 48600>>,
       <<67400, 621700>> >>

MOVE_REF ==
    [i \in 1..Len(FeatureKeys) |-> _ref_range(MOVE_MEASURED[i][1], MOVE_MEASURED[i][2])]

CAPTURE_REF ==
    [i \in 1..Len(FeatureKeys) |->
        _ref_range(CAPTURE_MEASURED[i][1], CAPTURE_MEASURED[i][2])]

\* The pairs _ref_range is called with: the measured ones, and every pair of
\* small values of either sign and order
RefPairs ==
    ((0 - RefMax)..RefMax) \X ((0 - RefMax)..RefMax)
      \cup {MOVE_MEASURED[i] : i \in 1..Len(FeatureKeys)}
      \cup {CAPTURE_MEASURED[i] : i \in 1..Len(FeatureKeys)}

InitRef ==
    /\ ProgramInit
    /\ repro = None /\ range_call = None
    /\ call \in {[fn |-> "_ref_range", a |-> ab[1], b |-> ab[2], range |-> None,
                  reads |-> 0] : ab \in RefPairs}

\* One entry of MOVE_REF or CAPTURE_REF is built when the module is loaded
RefRange ==
    /\ call.range = None
    /\ call' = [call EXCEPT !.range = _ref_range(call.a, call.b)]
    /\ UNCHANGED <<program_vars, repro, range_call>>

\* The entry is read, by _range_cost in an objective evaluation or by the
\* verification loop: for key, (lo, hi) in ref.items()
ReadRange ==
    /\ call.range # None
    /\ call.reads < MaxReads
    /\ call' = [call EXCEPT !.reads = @ + 1]
    /\ UNCHANGED <<program_vars, repro, range_call>>

SpecRef == InitRef /\ [][RefRange \/ ReadRange]_vars

----------------------------------------------------------------------------
(* The linear filters.  Frequencies are whole Hz. *)

SR == 44100

CutoffSpread == 4

Nyquist == SR \div 2

Filters == {"lpf", "bpf", "wood_hit"}

\* Requested upper cutoffs: one well inside the band, and those around SR/2
HiCutoffs == {8000} \cup {Nyquist + d : d \in (0 - CutoffSpread)..CutoffSpread}
LoCutoffs == {100, 750}

\* scipy's butter(..., fs=SR): it designs the filter when the critical
\* frequencies satisfy 0 < Wn < fs/2 (and lo < hi for a band), and raises
\* ValueError otherwise
butter(lo, hi) ==
    IF 0 < lo /\ lo < hi /\ hi < Nyquist
    THEN [designed |-> <<lo, hi>>, outcome |-> "filtered"]
    ELSE [designed |-> <<lo, hi>>, outcome |-> "ValueError"]

\* lpf(samples, cutoff): the cutoff goes to butter as it was given
lpf(cutoff) ==
    IF 0 < cutoff /\ cutoff < Nyquist
    THEN [designed |-> <<cutoff>>, outcome |-> "filtered"]
    ELSE [designed |-> <<cutoff>>, outcome |-> "ValueError"]

\* bpf(samples, lo, hi): both cutoffs go to butter as they were given
bpf(lo, hi) == butter(lo, hi)

\* The band-pass of wood_hit's noise: bpf(raw, noise_lo, min(p.brightness, SR / 2 - 1))
wood_hit_bpf(noise_lo, brightness) == bpf(noise_lo, Min(brightness, Nyquist - 1))

InitFilter ==
    /\ ProgramInit
    /\ repro = None /\ range_call = None
    /\ call \in {[fn |-> "filters", lo |-> l, hi |-> h,
                  out |-> [f \in Filters |-> None]] :
                    l \in LoCutoffs, h \in HiCutoffs}

Lpf ==
    /\ call.out["lpf"] = None
    /\ call' = [call EXCEPT !.out["lpf"] = lpf(call.hi)]
    /\ UNCHANGED <<program_vars, repro, range_call>>

Bpf ==
    /\ call.out["bpf"] = None
    /\ call' = [call EXCEPT !.out["bpf"] = bpf(call.lo, call.hi)]
    /\ UNCHANGED <<program_vars, repro, range_call>>

WoodHitBpf ==
    /\ call.out["wood_hit"] = None
    /\ call' = [call EXCEPT !.out["wood_hit"] = wood_hit_bpf(call.lo, call.hi)]
    /\ UNCHANGED <<program_vars, repro, range_call>>

SpecFilter == InitFilter /\ [][Lpf \/ Bpf \/ WoodHitBpf]_vars

----------------------------------------------------------------------------
(* _quick_analyze, in integer arithmetic that rounds down.  Every quantity is a
   whole number of eps; a sample is -1, 0 or 1; time runs in samples and the
   log-frequency of bin k is the whole part of log2(k). *)

eps == 1

MaxSamples == 4
PsdMax == 2

RECURSIVE SumSeq(_)
SumSeq(s) == IF s = <<>> THEN 0 ELSE s[1] + SumSeq(Tail(s))

RECURSIVE ISqrtFrom(_, _)
ISqrtFrom(n, r) == IF (r + 1) * (r + 1) > n THEN r ELSE ISqrtFrom(n, r + 1)

Number(n) == [ok |-> TRUE, v |-> n, what |-> "number"]

\* numpy's float division: 0/0 is nan and x/0 is inf, with a warning and
\* without an exception
Div(a, b) ==
    IF b # 0 THEN Number(a \div b)
    ELSE IF a = 0 THEN [ok |-> FALSE, v |-> 0, what |-> "nan"]
    ELSE [ok |-> FALSE, v |-> 0, what |-> "inf"]

\* np.sqrt: nan below zero
Sqrt(x) ==
    IF ~x.ok THEN x
    ELSE IF x.v < 0 THEN [ok |-> FALSE, v |-> 0, what |-> "nan"]
    ELSE Number(ISqrtFrom(x.v, 0))

Minus(x, n) == IF x.ok THEN Number(x.v - n) ELSE x

\* 2 ** x
Pow2(x) == IF x.ok THEN Number(2 ^ x.v) ELSE x

RECURSIVE ILog2(_)
ILog2(k) == IF k <= 1 THEN 0 ELSE 1 + ILog2(k \div 2)

\* a divisor without its additive epsilon
unguarded(d) == d

\* total = np.sum(psd) + eps, e_total * t_spread**3 + eps, ...
guarded(d) == d + eps

\* The four moments of one domain: centroid, spread, skewness, kurtosis of the
\* weights w over the axis, with the divisors that were used
moments(axis, w) ==
    LET n == Len(w)
        tot == guarded(SumSeq(w))
        c == Div(SumSeq([i \in 1..n |-> axis[i] * w[i]]), tot)
    IN  IF ~c.ok
        THEN [centroid |-> c, spread |-> c, skewness |-> c, kurtosis |-> c,
              divisors |-> <<tot>>]
        ELSE
          LET dev == [i \in 1..n |-> axis[i] - c.v]
              sp == Sqrt(Div(SumSeq([i \in 1..n |-> dev[i] * dev[i] * w[i]]), tot))
              d3 == guarded(tot * sp.v * sp.v * sp.v)
              d4 == guarded(tot * sp.v * sp.v * sp.v * sp.v)
          IN  [centroid |-> c,
               spread |-> sp,
               skewness |->
                  Div(SumSeq([i \in 1..n |-> dev[i] * dev[i] * dev[i] * w[i]]), d3),
               kurtosis |->
                  Minus(Div(SumSeq([i \in 1..n |->
                                      dev[i] * dev[i] * dev[i] * dev[i] * w[i]]), d4),
                        3),
               divisors |-> <<tot, d3, d4>>]

\* nperseg = min(2048, len(samples))
nperseg(samples) == Min(2048, Len(samples))

\* What welch may return past its DC bin for a waveform: nperseg // 2 powers,
\* none below zero, and all of them zero for an all-zero waveform
WelchPsd(samples) ==
    LET bins == nperseg(samples) \div 2
    IN  IF \A i \in 1..Len(samples) : samples[i] = 0
        THEN {[k \in 1..bins |-> 0]}
        ELSE [1..bins -> 0..PsdMax]

_quick_analyze(samples, psd) ==
    LET f == moments([k \in 1..Len(psd) |-> ILog2(k)], psd)
        t == moments([i \in 1..Len(samples) |-> i - 1],
                     [i \in 1..Len(samples) |-> samples[i] * samples[i]])
    IN  [f_centroid |-> Pow2(f.centroid), f_spread |-> f.spread,
         f_skewness |-> f.skewness, f_kurtosis |-> f.kurtosis,
         t_centroid |-> t.centroid, t_spread |-> t.spread,
         t_skewness |-> t.skewness, t_kurtosis |-> t.kurtosis,
         divisors |-> f.divisors \o t.divisors]

\* Every non-empty waveform of up to MaxSamples samples
Waveforms == UNION {[1..n -> {0 - 1, 0, 1}] : n \in 1..MaxSamples}

InitAnalyze ==
    /\ ProgramInit
    /\ repro = None /\ range_call = None
    /\ call \in {[fn |-> "_quick_analyze", at |-> "welch", samples |-> s,
                  psd |-> <<>>, metrics |-> None] : s \in Waveforms}

\* welch(samples, fs=SR, nperseg=nperseg), then the DC bin is dropped
Welch ==
    /\ call.at = "welch"
    /\ \E p \in WelchPsd(call.samples) :
          call' = [call EXCEPT !.psd = p, !.at = "moments"]
    /\ UNCHANGED <<program_vars, repro, range_call>>

\* The moments of both domains and the returned dictionary
QuickAnalyze ==
    /\ call.at = "moments"
    /\ call' = [call EXCEPT !.metrics = _quick_analyze(call.samples, call.psd),
                            !.at = "return"]
    /\ UNCHANGED <<program_vars, repro, range_call>>

SpecAnalyze == InitAnalyze /\ [][Welch \/ QuickAnalyze]_vars

----------------------------------------------------------------------------
(* Random state.  A generator is a number below RngMod that each draw
   advances; a parameter vector is a small number standing for itself; a cost
   is a number below RngMod. *)

RngMod == 16
NoiseLen == 2
MaxVector == 2
MaxCalls == 2

\* np.random.default_rng(seed): a new generator whose state the seed fixes
default_rng(seed) == seed % RngMod

\* One draw advances the generator
advance(g) == (5 * g + 3) % RngMod

RECURSIVE standard_normal(_, _)
standard_normal(g, n) ==
    IF n = 0 THEN <<>> ELSE <<g>> \o standard_normal(advance(g), n - 1)

\* noise drawn from the module's generator _rng
shared_generator(rng) == rng

\* The generator pink_noise draws from: np.random.default_rng(42), built anew in
\* every call, whatever the state of the module's generator _rng
noise_generator(rng) == default_rng(42)

\* pink_noise(dur): the shaping of the spectrum and the normalisation are
\* functions of the white samples alone
pink_noise(n, rng) == standard_normal(noise_generator(rng), n)

\* objective(x): wood_hit with its pink noise, a chain built anew from x,
\* _process, _quick_analyze, _range_cost against the constant reference ranges
objective(x, rng) == (x + SumSeq(pink_noise(NoiseLen, rng))) % RngMod

Vectors == 0..MaxVector

InitNoise ==
    /\ ProgramInit
    /\ repro = None /\ range_call = None
    /\ call = [fn |-> "objective", rng |-> default_rng(960), noise_calls |-> 0,
               first |-> [x \in Vectors |-> 0 - 1],
               evals |-> [x \in Vectors |-> 0],
               last |-> [x |-> 0, cost |-> 0 - 1]]

\* _between(a, b): one draw from the module's generator (the tonal chain's
\* parameters)
Between ==
    /\ call' = [call EXCEPT !.rng = advance(@)]
    /\ UNCHANGED <<program_vars, repro, range_call>>

\* A call of pink_noise outside the objective: its generator is its own, the
\* module's generator stays as it is
PinkNoise ==
    /\ call.noise_calls < MaxCalls
    /\ call' = [call EXCEPT !.noise_calls = @ + 1]
    /\ UNCHANGED <<program_vars, repro, range_call>>

\* One evaluation of the objective, by the solver or for a log line
Objective(x) ==
    /\ call.evals[x] < MaxCalls
    /\ call' = [call EXCEPT
                  !.evals[x] = @ + 1,
                  !.first[x] = IF @ < 0 THEN objective(x, call.rng) ELSE @,
                  !.last = [x |-> x, cost |-> objective(x, call.rng)]]
    /\ UNCHANGED <<program_vars, repro, range_call>>

NextNoise == Between \/ PinkNoise \/ (\E x \in Vectors : Objective(x))

SpecNoise == InitNoise /\ [][NextNoise]_vars

----------------------------------------------------------------------------
(* _process with a chain given.  Samples are whole thousandths of full scale
   (1.0 is 1000); a sample that has been scaled is a fraction num/den.  Lengths
   are in samples, with a fade and a pad of a few samples. *)

_PRE_FX_HEADROOM == 750          \* 0.75
_SILENCE_FLOOR == 1              \* 0.001
FULL_SCALE == 1000               \* the 1.0 of: if peak > 1.0

FadeLen == 2
PostTrimPad == 1
MaxInput == 2

InputLevels == {0 - 2000, 0, 1, 500}
ChainLevels == {0 - 2000, 0 - 1000, 0, 1, 1000, 1001}

RECURSIVE MaxAbs(_)
MaxAbs(s) == IF s = <<>> THEN 0 ELSE Max(Abs(s[1]), MaxAbs(Tail(s)))

\* a fade-out that works on the array it was given
fadeout_in_place(n) == FALSE

\* fadeout: samples = samples.copy(), under if n > 0
fadeout_copies(n) == n > 0

\* The weight of the k-th faded sample, k from 0, as a fraction of n: it is 1
\* for k = 0 and falls towards 0 without reaching it, as
\* 0.5 * (1 + cos(pi * k / n)) does
fade_weight(k, n) == n - k

\* fadeout(samples) for whole samples: numerators over the common denominator
\* den, with n = min(int(SR * dur), len(samples))
fadeout(s) ==
    LET n == Min(FadeLen, Len(s))
    IN  [n |-> n,
         den |-> Max(n, 1),
         num |-> [i \in 1..Len(s) |->
                    IF i > Len(s) - n
                    THEN s[i] * fade_weight(i - (Len(s) - n) - 1, n)
                    ELSE s[i] * Max(n, 1)]]

\* samples / peak * _PRE_FX_HEADROOM, under if peak > 0: numerators over den
normalize(num) ==
    LET peak == MaxAbs(num)
    IN  IF peak > 0
        THEN [num |-> [i \in 1..Len(num) |-> num[i] * _PRE_FX_HEADROOM], den |-> peak]
        ELSE [num |-> num, den |-> 1]

\* last_loud after the while loop
RECURSIVE last_loud(_, _)
last_loud(s, i) ==
    IF i > 0 /\ Abs(s[i + 1]) < _SILENCE_FLOOR THEN last_loud(s, i - 1) ELSE i

\* samples[: min(last_loud + int(SR * _POST_TRIM_PAD), len(samples))]
trim(s) == SubSeq(s, 1, Min(last_loud(s, Len(s) - 1) + PostTrimPad, Len(s)))

\* samples /= peak, under if peak > 1.0: each sample a fraction num/den
limit(s) ==
    LET peak == MaxAbs(s)
    IN  [i \in 1..Len(s) |->
           IF peak > FULL_SCALE
           THEN [num |-> s[i] * FULL_SCALE, den |-> peak]
           ELSE [num |-> s[i], den |-> 1]]

\* The closing fadeout, of fractions
fadeout_limited(s) ==
    LET n == Min(FadeLen, Len(s))
    IN  [i \in 1..Len(s) |->
           IF i > Len(s) - n
           THEN [num |-> s[i].num * fade_weight(i - (Len(s) - n) - 1, n),
                 den |-> s[i].den * n]
           ELSE s[i]]

ProcessInputs == UNION {[1..n -> InputLevels] : n \in 1..MaxInput}

InitProcess ==
    /\ ProgramInit
    /\ repro = None /\ range_call = None
    /\ call \in {[fn |-> "_process", at |-> "fadeout", input |-> s, caller |-> s,
                  handed |-> None, fx |-> <<>>, out |-> <<>>] :
                    s \in ProcessInputs}

\* Lines 453-462: the opening fadeout and the peak normalisation; caller is the
\* array the caller passed, which an in-place fade would change
PreFx ==
    /\ call.at = "fadeout"
    /\ call' = [call EXCEPT
                  !.at = "chain",
                  !.caller = IF fadeout_copies(fadeout(call.input).n)
                             THEN @
                             ELSE [i \in 1..Len(@) |->
                                     fadeout(call.input).num[i]
                                       \div fadeout(call.input).den],
                  !.handed = normalize(fadeout(call.input).num)]
    /\ UNCHANGED <<program_vars, repro, range_call>>

\* Line 464: the chain returns as many samples as it was given, of any value
Fx ==
    /\ call.at = "chain"
    /\ \E o \in [1..Len(call.input) -> ChainLevels] :
          call' = [call EXCEPT !.at = "limit", !.fx = o]
    /\ UNCHANGED <<program_vars, repro, range_call>>

\* Lines 465-473: the trim, the limit, the closing fadeout and the return
PostFx ==
    /\ call.at = "limit"
    /\ call' = [call EXCEPT !.at = "return",
                            !.out = fadeout_limited(limit(trim(call.fx)))]
    /\ UNCHANGED <<program_vars, repro, range_call>>

SpecProcess == InitProcess /\ [][PreFx \/ Fx \/ PostFx]_vars

----------------------------------------------------------------------------
(* wood_hit: the lengths of its arrays and the limits of its noise band.
   Parameters are in units of 1e-4 as in the optimizer vector, durations in
   1e-4 s, lengths in samples, the band limits in whole Hz. *)

\* int(SR * dur)
int_samples(dur) == (SR * dur) \div 10000

\* len(_t(dur)): np.linspace(0, dur, int(SR * dur), endpoint=False)
_t_len(dur) == int_samples(dur)

\* mode_ratios, in hundredths
mode_ratios == <<100, 276, 540, 893>>

\* the lower band limit taken from the body frequency itself
noise_lo_full(body_freq) == Max(100, body_freq \div 10000)

\* noise_lo = max(100, p.body_freq * 0.5)
noise_lo(body_freq) == Max(100, (body_freq \div 10000) \div 2)

\* sosfiltfilt pads both ends and raises ValueError for an input no longer than
\* its pad, 15 samples for the two sections of this band-pass
sosfiltfilt_ok(n) == n > 15

\* a * b on two numpy arrays: the length of the product, 0 - 1 when the
\* shapes do not match and numpy raises ValueError
times_len(a, b) == IF a = b THEN a ELSE 0 - 1

wood_hit(p) ==
    LET main_env == _t_len(p.dur)
        modes == {k \in 1..Len(mode_ratios) :
                    ~((p.body_freq \div 10000) * mode_ratios[k] > Nyquist * 100)}
        mode_len == [k \in modes |-> times_len(_t_len(p.dur), main_env)]
        raw == times_len(int_samples(p.dur), main_env)
        band == wood_hit_bpf(noise_lo(p.body_freq), p.brightness \div 10000)
        ok == /\ \A k \in modes : mode_len[k] = main_env
              /\ raw = main_env
              /\ band.outcome = "filtered"
              /\ sosfiltfilt_ok(raw)
    IN  [error |-> IF ok THEN "none" ELSE "ValueError",
         env_len |-> main_env,
         mode_len |-> mode_len,
         noise_len |-> raw,
         band |-> band.designed,
         len |-> IF ok THEN main_env ELSE 0]

\* The parameter vectors at the corners of _SYNTH_BOUNDS
SynthCorners ==
    {[k \in 1..Len(_SYNTH_BOUNDS) |-> _SYNTH_BOUNDS[k][c[k]]] :
        c \in [1..Len(_SYNTH_BOUNDS) -> {1, 2}]}

LayerDurations == {MOVE_DUR, CLACK_DUR, THUD_DUR}

InitWood ==
    /\ ProgramInit
    /\ repro = None /\ range_call = None
    /\ call \in {[fn |-> "wood_hit", p |-> _make_wood(x, d), out |-> None] :
                    x \in SynthCorners \cup {SubSeq(_MOVE_X0, 1, 7)},
                    d \in LayerDurations}

WoodHit ==
    /\ call.out = None
    /\ call' = [call EXCEPT !.out = wood_hit(call.p)]
    /\ UNCHANGED <<program_vars, repro, range_call>>

SpecWood == InitWood /\ [][WoodHit]_vars


----------------------------------------------------------------------------
(* The noise residual of wood_hit, sample by sample, on short arrays indexed
   from 0 as in the source.  Sample values are whole numbers.  The band-pass
   is applied the way sosfiltfilt applies it: one causal section run forward
   over the signal and then run again over the reversed output.  The section
   keeps the band-pass numerator, zeros at 0 Hz and at SR / 2; its feedback
   terms and the edge padding of sosfiltfilt, which only lengthen the
   response, are left out. *)

ResLen == 5
EnvPeak == 3

Indices == 0..(ResLen - 1)

\* impact_env: zero before onset_idx, the raised-cosine attack starts at zero
\* on onset_idx itself, the Weibull tail stays positive
impact_env(onset_idx) ==
    [i \in Indices |->
        IF i < onset_idx THEN 0
        ELSE IF i = onset_idx THEN 0
        ELSE Max(1, EnvPeak - (i - onset_idx))]

\* a * b, element by element
times(a, b) == [i \in Indices |-> a[i] * b[i]]

\* one causal band-pass section: y[i] = x[i] - x[i-2]
section(x) == [i \in Indices |-> x[i] - (IF i >= 2 THEN x[i - 2] ELSE 0)]

reversed(x) == [i \in Indices |-> x[(ResLen - 1) - i]]

\* sosfiltfilt(sos, samples): forward, then backward
sosfiltfilt(x) == reversed(section(reversed(section(x))))

\* raw = pink_noise(p.dur) * main_env
windowed(pink, main_env) == times(pink, main_env)

\* woody = bpf(raw, ...) * p.noise_level
woody_of(raw, noise_level) == [i \in Indices |-> sosfiltfilt(raw)[i] * noise_level]

\* modal += amp * sine(freq_k, p.dur) * main_env
modal_of(sine, amp, main_env) == [i \in Indices |-> amp * sine[i] * main_env[i]]

NoiseValues == {0 - 1, 1, 2}
OnsetIdxs == 1..2
Silent == [i \in Indices |-> 0]

InitResidual ==
    /\ ProgramInit
    /\ repro = None /\ range_call = None
    /\ call \in {[fn |-> "wood_hit_residual", at |-> "main_env",
                  pink |-> n, sine |-> reversed(n), onset_idx |-> o,
                  noise_level |-> l,
                  main_env |-> Silent, modal |-> Silent,
                  raw |-> Silent, woody |-> Silent] :
                    n \in [Indices -> NoiseValues], o \in OnsetIdxs, l \in {1, 2}}

\* main_env = impact_env(p.dur, p.onset, p.decay_tau, p.decay_beta)
MainEnv ==
    /\ call.at = "main_env"
    /\ call' = [call EXCEPT !.main_env = impact_env(call.onset_idx),
                            !.at = "modal"]
    /\ UNCHANGED <<program_vars, repro, range_call>>

Modal ==
    /\ call.at = "modal"
    /\ call' = [call EXCEPT !.modal = modal_of(call.sine, 1, call.main_env),
                            !.at = "raw"]
    /\ UNCHANGED <<program_vars, repro, range_call>>

Raw ==
    /\ call.at = "raw"
    /\ call' = [call EXCEPT !.raw = windowed(call.pink, call.main_env),
                            !.at = "woody"]
    /\ UNCHANGED <<program_vars, repro, range_call>>

Woody ==
    /\ call.at = "woody"
    /\ call' = [call EXCEPT !.woody = woody_of(call.raw, call.noise_level),
                            !.at = "return"]
    /\ UNCHANGED <<program_vars, repro, range_call>>

SpecResidual == InitResidual /\ [][MainEnv \/ Modal \/ Raw \/ Woody]_vars


----------------------------------------------------------------------------
(* analyze of measure-refs.py beside _quick_analyze, in the same integer
   arithmetic.  A moment's whole number n stands for n * FeatureUnit
   hundred-thousandths, the unit in which analyze's rounded values are
   written; time runs in samples of gen-sounds' rate. *)

measure_SR == 44100
measure_eps == 1

FeatureUnit == 25 * 100

RECURSIVE Pow10(_)
Pow10(d) == IF d = 0 THEN 1 ELSE 10 * Pow10(d - 1)

\* round(x, ndigits) on a float: the nearest multiple of 10 ** -ndigits, a tie
\* going to the even multiple; nan and inf come back unchanged
round(x, ndigits) ==
    IF ~x.ok THEN x
    ELSE
      LET m == Pow10(5 - ndigits)
          q == x.v \div m
          r == x.v % m
          up == 2 * r > m \/ (2 * r = m /\ q % 2 = 1)
      IN  Number(m * (IF up THEN q + 1 ELSE q))

\* a moment in hundred-thousandths
in_units(x) == IF x.ok THEN Number(x.v * FeatureUnit) ELSE x

\* the second argument of every round(...) in analyze's return statement
measure_decimals_uniform ==
    [f_centroid |-> 2, f_spread |-> 2, f_skewness |-> 2, f_kurtosis |-> 2,
     t_centroid |-> 2, t_spread |-> 2, t_skewness |-> 2, t_kurtosis |-> 2]

measure_decimals ==
    [f_centroid |-> 1, f_spread |-> 4, f_skewness |-> 2, f_kurtosis |-> 2,
     t_centroid |-> 1, t_spread |-> 1, t_skewness |-> 2, t_kurtosis |-> 2]

\* the arguments each extractor hands to welch
quick_welch_args(samples) == [fs |-> SR, nperseg |-> nperseg(samples)]
measure_welch_args(samples) == [fs |-> measure_SR, nperseg |-> Min(2048, Len(samples))]

\* centroid, spread, skewness and kurtosis as analyze computes them
measure_moments(axis, w) ==
    LET n == Len(w)
        total_ == SumSeq(w) + measure_eps
        centroid == Div(SumSeq([i \in 1..n |-> axis[i] * w[i]]), total_)
    IN  IF ~centroid.ok
        THEN [centroid |-> centroid, spread |-> centroid,
              skewness |-> centroid, kurtosis |-> centroid]
        ELSE
          LET dev == [i \in 1..n |-> axis[i] - centroid.v]
              spread == Sqrt(Div(SumSeq([i \in 1..n |-> dev[i] * dev[i] * w[i]]),
                                 total_))
              cube == spread.v * spread.v * spread.v
          IN  [centroid |-> centroid,
               spread |-> spread,
               skewness |->
                  Div(SumSeq([i \in 1..n |-> dev[i] * dev[i] * dev[i] * w[i]]),
                      total_ * cube + measure_eps),
               kurtosis |->
                  Minus(Div(SumSeq([i \in 1..n |->
                                      dev[i] * dev[i] * dev[i] * dev[i] * w[i]]),
                            total_ * cube * spread.v + measure_eps),
                        3)]

analyze(samples, psd) ==
    LET f == measure_moments([k \in 1..Len(psd) |-> ILog2(k)], psd)
        t == measure_moments([i \in 1..Len(samples) |-> ((i - 1) * SR) \div measure_SR],
                             [i \in 1..Len(samples) |-> samples[i] * samples[i]])
        d == measure_decimals
    IN  [f_centroid |-> round(in_units(Pow2(f.centroid)), d.f_centroid),
         f_spread |-> round(in_units(f.spread), d.f_spread),
         f_skewness |-> round(in_units(f.skewness), d.f_skewness),
         f_kurtosis |-> round(in_units(f.kurtosis), d.f_kurtosis),
         t_centroid |-> round(in_units(t.centroid), d.t_centroid),
         t_spread |-> round(in_units(t.spread), d.t_spread),
         t_skewness |-> round(in_units(t.skewness), d.t_skewness),
         t_kurtosis |-> round(in_units(t.kurtosis), d.t_kurtosis)]

InitFeatures ==
    /\ ProgramInit
    /\ repro = None /\ range_call = None
    /\ call \in {[fn |-> "analyze", at |-> "welch", samples |-> s,
                  psd |-> <<>>, measure_psd |-> <<>>,
                  quick |-> None, measured |-> None] : s \in Waveforms}

\* _quick_analyze's call of welch
QuickWelch ==
    /\ call.at = "welch"
    /\ \E p \in WelchPsd(call.samples) :
          call' = [call EXCEPT !.psd = p, !.at = "measure_welch"]
    /\ UNCHANGED <<program_vars, repro, range_call>>

\* analyze's call of welch: the same estimate when the arguments are the same
MeasureWelch ==
    /\ call.at = "measure_welch"
    /\ \E p \in WelchPsd(call.samples) :
          /\ measure_welch_args(call.samples) = quick_welch_args(call.samples)
                => p = call.psd
          /\ call' = [call EXCEPT !.measure_psd = p, !.at = "quick"]
    /\ UNCHANGED <<program_vars, repro, range_call>>

QuickFeatures ==
    /\ call.at = "quick"
    /\ call' = [call EXCEPT !.quick = _quick_analyze(call.samples, call.psd),
                            !.at = "analyze"]
    /\ UNCHANGED <<program_vars, repro, range_call>>

Analyze ==
    /\ call.at = "analyze"
    /\ call' = [call EXCEPT !.measured = analyze(call.samples, call.measure_psd),
                            !.at = "return"]
    /\ UNCHANGED <<program_vars, repro, range_call>>

NextFeatures == QuickWelch \/ MeasureWelch \/ QuickFeatures \/ Analyze

SpecFeatures == InitFeatures /\ [][NextFeatures]_vars


----------------------------------------------------------------------------
(* The two silence trims, loop iteration by loop iteration: the trailing trim
   of _process on what the chain returned, then the leading strip of write on
   what _process returned.  Samples and lengths as in the model of _process;
   indices count from 0 as in the source. *)

TrimLen == 5

\* what the chain may return: silence, the floor itself, a sample over full scale
TrimLevels == {0 - 2000, 0, 1}

\* abs(samples[i]) < _SILENCE_FLOOR, for a whole sample and for a fraction
silent(x) == Abs(x) < _SILENCE_FLOOR
silent_fraction(x) == Abs(x.num) < _SILENCE_FLOOR * x.den

\* the slice end without the guard after the last audible sample
trail_end_unpadded(last, len) == Min(last, len)

\* min(last_loud + int(SR * _POST_TRIM_PAD), len(samples))
trail_end(last, len) == Min(last + PostTrimPad, len)

\* max(0, first_loud - guard), guard = int(SR * _POST_TRIM_PAD)
lead_start(first) == Max(0, first - PostTrimPad)

TrimInputs == UNION {[1..n -> TrimLevels] : n \in 1..TrimLen}

InitTrim ==
    /\ ProgramInit
    /\ repro = None /\ range_call = None
    /\ call \in {[fn |-> "write", at |-> "fx", fx |-> s, last_loud |-> 0,
                  trimmed |-> <<>>, out |-> <<>>, first_loud |-> 0,
                  written |-> <<>>] : s \in TrimInputs}

\* last_loud = len(samples) - 1
TrailStart ==
    /\ call.at = "fx"
    /\ call' = [call EXCEPT !.last_loud = Len(call.fx) - 1, !.at = "trail_loop"]
    /\ UNCHANGED <<program_vars, repro, range_call>>

\* one test of the while condition of _process, and its body when it holds
TrailLoop ==
    /\ call.at = "trail_loop"
    /\ IF call.last_loud > 0 /\ silent(call.fx[call.last_loud + 1])
       THEN call' = [call EXCEPT !.last_loud = @ - 1]
       ELSE call' = [call EXCEPT !.at = "trail_slice"]
    /\ UNCHANGED <<program_vars, repro, range_call>>

TrailSlice ==
    /\ call.at = "trail_slice"
    /\ call' = [call EXCEPT
                  !.trimmed = SubSeq(call.fx, 1,
                                     trail_end(call.last_loud, Len(call.fx))),
                  !.at = "limit"]
    /\ UNCHANGED <<program_vars, repro, range_call>>

\* the limit and the closing fadeout of _process, its return, and
\* first_loud = 0 in write
ProcessReturn ==
    /\ call.at = "limit"
    /\ call' = [call EXCEPT !.out = fadeout_limited(limit(call.trimmed)),
                            !.first_loud = 0,
                            !.at = "lead_loop"]
    /\ UNCHANGED <<program_vars, repro, range_call>>

\* one test of the while condition of write, and its body when it holds
LeadLoop ==
    /\ call.at = "lead_loop"
    /\ IF /\ call.first_loud < Len(call.out)
          /\ silent_fraction(call.out[call.first_loud + 1])
       THEN call' = [call EXCEPT !.first_loud = @ + 1]
       ELSE call' = [call EXCEPT !.at = "lead_slice"]
    /\ UNCHANGED <<program_vars, repro, range_call>>

\* if first_loud > 0: samples = samples[max(0, first_loud - guard):]
LeadSlice ==
    /\ call.at = "lead_slice"
    /\ call' = [call EXCEPT
                  !.written = IF call.first_loud > 0
                              THEN SubSeq(call.out, lead_start(call.first_loud) + 1,
                                          Len(call.out))
                              ELSE call.out,
                  !.at = "return"]
    /\ UNCHANGED <<program_vars, repro, range_call>>

NextTrim ==
    TrailStart \/ TrailLoop \/ TrailSlice \/ ProcessReturn \/ LeadLoop \/ LeadSlice

\* Python runs the loops on: every enabled step is eventually taken
SpecTrim == InitTrim /\ [][NextTrim]_vars /\ WF_vars(NextTrim)


----------------------------------------------------------------------------
(* The program with an exception raised inside a search: a KeyboardInterrupt
   during differential_evolution, or an error raised by the objective, leaves
   _ensure_optimized at line 711 or 712 and returns control to whoever called
   move(), capture() or _ensure_optimized().  The globals keep what had been
   assigned by then. *)

MaxInterrupts == 1

Interrupt ==
    /\ pc = "de_loop"
    /\ opt_runs[sound] <= MaxInterrupts
    /\ pc' = "idle"
    /\ caller' = "none"
    /\ exc' = "KeyboardInterrupt"
    /\ NoRun
    /\ UNCHANGED <<opt_runs, cache_vars, rendered, verify_log, call_vars>>

NextInterrupted == Next \/ Interrupt

SpecInterrupted == Init /\ [][NextInterrupted]_vars


----------------------------------------------------------------------------
(* The onset of each rendered layer against the layer's length, for parameter
   vectors inside the search bounds.  Onsets and durations in 1e-4 s, indices
   in samples. *)

OnsetStep == 10

\* onset_idx = max(0, int(onset * SR))
onset_index(p) == Max(0, (p.onset * SR) \div 10000)

\* e[i] > 0: nothing before onset_idx, the attack's first weight is zero, the
\* Weibull tail is positive
envelope_positive(p, i) == i >= onset_index(p) /\ i # onset_index(p)

\* the envelope impact_env returns has no sample other than zero
identically_zero(p) ==
    ~\E i \in 0..(_t_len(p.dur) - 1) : envelope_positive(p, i)

\* the onsets the bounds allow, OnsetStep apart
OnsetGrid ==
    {o \in _SYNTH_BOUNDS[5][1].._SYNTH_BOUNDS[5][2] :
        (o - _SYNTH_BOUNDS[5][1]) % OnsetStep = 0}

\* the warm start with the onset of every layer replaced
with_onset(s, o) ==
    [k \in 1..Len(X0(s)) |-> IF k \in {5, 12} /\ k <= 7 * (Len(X0(s)) \div 7)
                              THEN o ELSE X0(s)[k]]

\* the WoodParams the objectives hand to wood_hit, layer by layer
Layers(o) ==
    {[layer |-> "move", p |-> objective_inputs("move", with_onset("move", o)).params],
     [layer |-> "clack",
      p |-> objective_inputs("capture", with_onset("capture", o)).clack_p],
     [layer |-> "thud",
      p |-> objective_inputs("capture", with_onset("capture", o)).thud_p]}

InitOnset ==
    /\ ProgramInit
    /\ repro = None /\ range_call = None
    /\ call \in {[fn |-> "impact_env", at |-> "call", layer |-> l.layer, p |-> l.p,
                  onset_idx |-> 0, len |-> 0, zero |-> FALSE] :
                    l \in UNION {Layers(o) : o \in OnsetGrid}}

\* main_env = impact_env(p.dur, p.onset, p.decay_tau, p.decay_beta)
ImpactEnv ==
    /\ call.at = "call"
    /\ call' = [call EXCEPT !.onset_idx = onset_index(call.p),
                            !.len = _t_len(call.p.dur),
                            !.zero = identically_zero(call.p),
                            !.at = "return"]
    /\ UNCHANGED <<program_vars, repro, range_call>>

SpecOnset == InitOnset /\ [][ImpactEnv]_vars

----------------------------------------------------------------------------
(* Claims about the termination policy *)

\* A callback of the current run has returned
CallbackRan == pc \in {"de_loop", "assigned"} /\ nit >= 1

\* The best cost recorded 20 entries back, the newest entry counted
WindowStart(h) == h[Len(h) - 19]

\* Over the window of the last 20 recorded best costs the improvement is below 1%
\* of the window's first entry
PlateauAt(h) == Len(h) >= 20 /\ 100 * (WindowStart(h) - h[Len(h)]) < WindowStart(h)

Prefix(h, g) == SubSeq(h, 1, g)

\* C1: in both runs the callback returns True at a generation exactly when the
\* running best cost is below 0.01, or more than 120 s have elapsed since the run
\* began, or the plateau rule holds; the solver makes no further generation once
\* it did, so the stop is requested at the first generation where a condition
\* holds and at none where no condition holds.
C1_FirstTriggerWins ==
    CallbackRan =>
        /\ Len(plateau_check) = nit
        /\ best_cost = plateau_check[nit]
        /\ (cb_ret = "True") <=>
              (best_cost < 100 \/ elapsed > 120 \/ PlateauAt(plateau_check))
        /\ pc = "de_loop" => cb_ret = "None"
        /\ \A g \in 1..(nit - 1) :
              plateau_check[g] >= 100 /\ ~PlateauAt(Prefix(plateau_check, g))

\* The capture run is stopped by the time budget alone, after its first generation
C1_Witness ==
    /\ pc = "assigned" /\ sound = "capture" /\ nit > 1
    /\ cb_ret = "True" /\ elapsed > 120
    /\ best_cost >= 100 /\ ~PlateauAt(plateau_check)

\* C2: the callback takes its plateau exit (logs "plateau detected" and returns
\* True) only at a generation g >= 20 at which the best cost improved by less
\* than 1% over the window of the last 20 recorded values, never before 20
\* generations are recorded and never when the improvement over the window is 1%
\* or more; and whenever the success and time tests of that call have not
\* already requested the stop, it takes it exactly when that rule holds.
C2_PlateauRule ==
    CallbackRan =>
        /\ log_plateau # 0 => log_plateau = nit /\ nit >= 20 /\ PlateauAt(plateau_check)
        /\ nit < 20 => log_plateau = 0
        /\ (nit >= 20 /\ 100 * (WindowStart(plateau_check) - best_cost)
                            >= WindowStart(plateau_check)) => log_plateau = 0
        /\ (best_cost >= 100 /\ elapsed <= 120) =>
              ((log_plateau = nit) <=> PlateauAt(plateau_check))

\* A plateau stop after an improvement that is positive but below 1%
C2_Witness ==
    /\ pc = "assigned" /\ log_plateau = nit /\ nit >= 20
    /\ best_cost < WindowStart(plateau_check)

\* C3 as stated: with a flat objective the run ends through the plateau exit,
\* before the generation cap and within the time budget.
C3_FlatEndsByPlateau ==
    (pc = "assigned" /\ obj.kind = "flat") =>
        /\ log_plateau = nit
        /\ nit < 500
        /\ elapsed <= 120

\* C3 amended: with a flat objective the run ends after its first generation, far
\* below the cap of 500, and never through the plateau exit: through the
\* callback when the constant is below 0.01 or more than 120 s have elapsed, and
\* otherwise through the solver's own convergence test, the population energies
\* being all equal.
C3_FlatEndsAtFirstGeneration ==
    (pc \in {"de_loop", "assigned"} /\ obj.kind = "flat") =>
        /\ nit <= 1
        /\ log_plateau = 0
        /\ pc = "de_loop" => nit = 0
        /\ pc = "assigned" =>
              status = (IF obj.c < 100 \/ elapsed > 120
                        THEN "callback function requested stop early"
                        ELSE "Optimization terminated successfully.")

\* A flat objective at or above the threshold, ended by the convergence test
C3_Witness ==
    /\ pc = "assigned" /\ obj.kind = "flat" /\ obj.c >= 100
    /\ nit = 1 /\ cb_ret = "None"
    /\ status = "Optimization terminated successfully."

\* C4: a run makes at most 500 generations and calls the callback once per
\* generation, so at most 500 times; while it is in its loop a further generation
\* is due and possible, and after the 500th it has left the loop whether or not
\* the callback ever asked for a stop.
C4_GenerationCap ==
    /\ nit <= 500
    /\ Len(plateau_check) = nit
    /\ pc = "de_loop" => nit < 500 /\ ENABLED Generation
    /\ (pc = "assigned" /\ nit = 500 /\ cb_ret = "None") =>
          status = "Maximum number of iterations has been exceeded."

\* A run that reached the cap with no stop requested by any callback call
C4_Witness ==
    /\ pc = "assigned" /\ nit = 500 /\ cb_ret = "None"
    /\ best_cost >= 100 /\ elapsed <= 120 /\ ~PlateauAt(plateau_check)

----------------------------------------------------------------------------
(* Claims about reproducibility *)

ReproDone == repro # None /\ \A i \in RunIds : ~Running(i)

\* C5 as stated: the two runs stop at the same generation and return the same
\* result, whatever their clocks did.
C5_SameResultAlways ==
    ReproDone =>
        /\ repro.run[1].nit = repro.run[2].nit
        /\ repro.run[1].result = repro.run[2].result

\* What the code does give (C5, short of the claim): the two runs record the
\* same best cost at every generation both reach, and when the time budget has
\* fired in neither of them they stop at the same generation and return the same
\* result (vector, cost, iteration count).
C5_SameResultUnlessTimeBudget ==
    repro # None =>
        /\ \A g \in 1..Len(repro.run[1].plateau_check) :
              g <= Len(repro.run[2].plateau_check) =>
                 repro.run[1].plateau_check[g] = repro.run[2].plateau_check[g]
        /\ (ReproDone /\ repro.run[1].elapsed <= 120 /\ repro.run[2].elapsed <= 120) =>
              /\ repro.run[1].nit = repro.run[2].nit
              /\ repro.run[1].result = repro.run[2].result
              /\ repro.run[1].status = repro.run[2].status

\* Two finished runs whose clocks differed and whose results agree
C5_Witness ==
    /\ ReproDone
    /\ repro.run[1].elapsed # repro.run[2].elapsed
    /\ repro.run[1].elapsed <= 120 /\ repro.run[2].elapsed <= 120
    /\ repro.run[1].nit >= 20
    /\ repro.run[1].result = repro.run[2].result

----------------------------------------------------------------------------
(* Claims about the cost function *)

Evaluated == range_call # None /\ range_call.total # None

AllInside == \A k \in DOMAIN range_call.ref :
                Inside(range_call.actual[k], range_call.ref[k])

\* C7: the value of _range_cost is never negative, and it is zero exactly when
\* every feature named in the reference mapping lies in its interval, the two
\* ends included.
C7_ZeroIffInside ==
    Evaluated =>
        /\ range_call.total.den > 0
        /\ range_call.total.num >= 0
        /\ (range_call.total.num = 0) <=> AllInside

\* A zero cost with one feature on the lower end of its range and another on
\* the upper end of its own
C7_Witness ==
    /\ Evaluated
    /\ range_call.total.num = 0
    /\ \E k, j \in DOMAIN range_call.ref :
          /\ k # j
          /\ range_call.ref[k][1] < range_call.ref[k][2]
          /\ range_call.actual[k] = range_call.ref[k][1]
          /\ range_call.actual[j] = range_call.ref[j][2]

Midpoint(range) == (range[1] + range[2]) \div 2

Overshoot(val, range) ==
    IF val < range[1] THEN range[1] - val
    ELSE IF val > range[2] THEN val - range[2] ELSE 0

OnlyOutside(k) ==
    /\ ~Inside(range_call.actual[k], range_call.ref[k])
    /\ \A j \in DOMAIN range_call.ref :
          j # k => Inside(range_call.actual[j], range_call.ref[j])

\* C8: with every feature at the midpoint of its range the cost is exactly 0;
\* with a single feature outside its range the cost is above 0 and equals the
\* square of overshoot / (|midpoint| + epsilon); and when that feature moves
\* further beyond the boundary it violates, on either side, the cost does not
\* go down.
C8_MidpointZeroAndMonotone ==
    Evaluated =>
        /\ (\A k \in DOMAIN range_call.ref :
               range_call.actual[k] = Midpoint(range_call.ref[k]))
              => range_call.total.num = 0
        /\ \A k \in DOMAIN range_call.ref :
              OnlyOutside(k) =>
                 /\ range_call.total.num > 0
                 /\ range_call.total.num
                      * (EpsDen * Abs(Midpoint(range_call.ref[k])) + 1)
                      * (EpsDen * Abs(Midpoint(range_call.ref[k])) + 1)
                    = (EpsDen * Overshoot(range_call.actual[k], range_call.ref[k]))
                      * (EpsDen * Overshoot(range_call.actual[k], range_call.ref[k]))
                      * range_call.total.den
        /\ (range_call.before # None /\ OnlyOutside(range_call.before.key)) =>
              /\ range_call.total.den = range_call.before.total.den
              /\ range_call.total.num >= range_call.before.total.num

\* A feature has moved further above a range whose midpoint is not zero, and
\* the cost went up
C8_Witness ==
    /\ Evaluated
    /\ range_call.before # None
    /\ OnlyOutside(range_call.before.key)
    /\ Midpoint(range_call.ref[range_call.before.key]) # 0
    /\ range_call.actual[range_call.before.key]
          > range_call.ref[range_call.before.key][2]
    /\ range_call.before.total.num > 0
    /\ range_call.total.num > range_call.before.total.num

----------------------------------------------------------------------------
(* Claims about the cache, the bounds and the outcome of the search *)

RenderedFromCache ==
    CASE rendered = None -> TRUE
      [] rendered.fn = "move" -> rendered.layers = <<MOVE_PARAMS>>
      [] rendered.fn = "capture" -> rendered.layers = <<CAPTURE_CLACK, CAPTURE_THUD>>
      [] OTHER -> rendered.layers = <<MOVE_PARAMS, CAPTURE_CLACK, CAPTURE_THUD>>

\* C6: over any sequence of calls the move optimization and the capture
\* optimization each run at most once, no run is in progress or begins once the
\* cache is filled and the call has returned, and what a call renders is the
\* cached winning parameters.
C6_ComputeOnce ==
    /\ \A s \in Sounds : opt_runs[s] <= 1
    /\ (pc = "idle" /\ MOVE_PARAMS # None) =>
          /\ \A s \in Sounds : opt_runs[s] = 1
          /\ ~ENABLED (\E fn \in Fns : CallOptimize(fn))
    /\ RenderedFromCache

\* capture() has rendered and the script's verification has logged: two calls,
\* one optimization of each sound
C6_Witness ==
    /\ pc = "idle"
    /\ rendered # None /\ rendered.fn = "capture"
    /\ verify_log # {}
    /\ \A s \in Sounds : opt_runs[s] = 1

InBounds(x, b) ==
    /\ Len(x) = Len(b)
    /\ \A k \in 1..Len(b) : b[k][1] <= x[k] /\ x[k] <= b[k][2]

\* C9: the vector the driver evaluates (the warm start before the search, the
\* callback's xk after each generation) and the vector the search returns have
\* the dimension of the bounds list, 10 for move and 17 for capture, and every
\* component inside its closed interval.
C9_EvaluatedInBounds ==
    /\ Len(bounds("move")) = 10 /\ Len(bounds("capture")) = 17
    /\ sound \in Sounds =>
          /\ InBounds(xk, bounds(sound))
          /\ result # None => InBounds(result.x, bounds(sound))

\* The capture search holds a best member other than its warm start
C9_Witness ==
    /\ sound = "capture" /\ nit >= 1
    /\ xk # X0("capture")
    /\ Len(xk) = 17

Unpacked ==
    IF sound = "move"
    THEN /\ MOVE_PARAMS = MoveReturn(result.x).params
         /\ MOVE_CHAIN = MoveReturn(result.x).chain
    ELSE /\ CAPTURE_CLACK = CaptureReturn(result.x).clack_p
         /\ CAPTURE_THUD = CaptureReturn(result.x).thud_p
         /\ CAPTURE_CHAIN = CaptureReturn(result.x).chain

\* C10: nothing is raised, by whichever path a search ends and whatever cost it
\* reached; when it has ended the globals hold the parameters unpacked from the
\* best vector; and the verification loop logs an out-of-range label without
\* raising.
C10_SearchNeverFails ==
    /\ exc = "none"
    /\ pc = "assigned" => (result # None /\ Unpacked)
    /\ pc = "de_loop" => result = None

\* A search ended by the generation cap with its cost above the threshold
C10_Witness ==
    /\ pc = "assigned"
    /\ status = "Maximum number of iterations has been exceeded."
    /\ result.fun >= SuccessThreshold
    /\ Unpacked

\* The verification loop has logged both labels out of range
C10_VerifyLogged == verify_log = Labels /\ exc = "none" /\ rendered.fn = "__main__"

----------------------------------------------------------------------------
(* Claims about the reference ranges *)

\* C11: for reference values a and b in either order and of any sign,
\* _ref_range(a, b) = (low, high) has low <= min(a, b) <= max(a, b) <= high with
\* the same margin below and above; so low <= high for every key of MOVE_REF and
\* CAPTURE_REF; and a range that has been built stays what _ref_range returned,
\* however often it is read.
C11_RefRangeOrdered ==
    /\ \A i \in 1..Len(FeatureKeys) :
          MOVE_REF[i][1] <= MOVE_REF[i][2] /\ CAPTURE_REF[i][1] <= CAPTURE_REF[i][2]
    /\ (call # None /\ call.range # None) =>
          /\ call.range[1] <= REF_TOLERANCE_INV * Min(call.a, call.b)
          /\ REF_TOLERANCE_INV * Max(call.a, call.b) <= call.range[2]
          /\ REF_TOLERANCE_INV * Min(call.a, call.b) - call.range[1]
                = call.range[2] - REF_TOLERANCE_INV * Max(call.a, call.b)
          /\ call.range[1] <= call.range[2]
          /\ call.range = _ref_range(call.a, call.b)

\* A range built from a > b with b below zero, read since
C11_Witness ==
    /\ call # None /\ call.range # None
    /\ call.a > call.b /\ call.b < 0
    /\ call.range[1] < REF_TOLERANCE_INV * call.b
    /\ call.reads >= 1

----------------------------------------------------------------------------
(* Claims about the filters *)

FilterDone(f) == call # None /\ call.fn = "filters" /\ call.out[f] # None

\* C12: every filter hands butter an upper cutoff below SR/2, so no request
\* raises, one at or above SR/2 included; and such a request has the same
\* outcome with every filter.
C12_FiltersClampBelowNyquist ==
    \A f \in Filters :
        FilterDone(f) =>
            /\ call.out[f].designed[Len(call.out[f].designed)] < Nyquist
            /\ call.out[f].outcome # "ValueError"
            /\ \A g \in Filters :
                  (FilterDone(g) /\ call.hi >= Nyquist) =>
                      call.out[g].outcome = call.out[f].outcome

\* What the code does give at or above SR/2 (C12, short of the claim): lpf and
\* bpf hand the cutoff on and butter raises ValueError; only the call inside
\* wood_hit clamps it, to SR/2 - 1, and filters.
C12_OnlyWoodHitClamps ==
    \A f \in Filters :
        (FilterDone(f) /\ call.hi >= Nyquist) =>
            IF f = "wood_hit"
            THEN call.out[f] = [designed |-> <<call.lo, Nyquist - 1>>,
                                outcome |-> "filtered"]
            ELSE call.out[f].outcome = "ValueError"
                 /\ call.out[f].designed[Len(call.out[f].designed)] = call.hi

----------------------------------------------------------------------------
(* Claims about the feature extractor *)

Analyzed == call # None /\ call.fn = "_quick_analyze" /\ call.at = "return"

\* C13: for every non-empty waveform, all-zero or of zero spectral or
\* temporal spread included, every divisor in _quick_analyze is above zero and
\* each of the 8 features is a number (no nan, no inf).
C13_DivisorsPositive ==
    Analyzed =>
        /\ Len(call.metrics.divisors) = 6
        /\ \A i \in 1..Len(call.metrics.divisors) : call.metrics.divisors[i] > 0
        /\ \A i \in 1..Len(FeatureKeys) : call.metrics[FeatureKeys[i]].ok

\* An all-zero waveform has been analyzed, both spreads zero
C13_Witness ==
    /\ Analyzed
    /\ Len(call.samples) = MaxSamples
    /\ \A i \in 1..Len(call.samples) : call.samples[i] = 0
    /\ call.metrics.f_spread.v = 0 /\ call.metrics.t_spread.v = 0
    /\ call.metrics.t_kurtosis.v = 0 - 3

----------------------------------------------------------------------------
(* Claims about random state *)

\* C14: whatever calls came before (draws from the module's generator, calls
\* of pink_noise, other evaluations), an evaluation of the objective on a vector
\* gives the cost its first evaluation on that vector gave.
C14_CostDeterministic ==
    (call # None /\ call.fn = "objective" /\ call.last.cost >= 0) =>
        call.last.cost = call.first[call.last.x]

\* A vector evaluated a second time after the module's generator has advanced
\* and pink_noise has been called
C14_Witness ==
    /\ call # None /\ call.fn = "objective"
    /\ call.last.cost >= 0
    /\ call.evals[call.last.x] = 2
    /\ call.rng # default_rng(960)
    /\ call.noise_calls >= 1

----------------------------------------------------------------------------
(* Claims about progress observation *)

\* C15: the callback runs once per generation and adds one entry to the
\* history, whose length is therefore the generation index; and a generation
\* with its callback leaves the solver with the best vector and lowest energy
\* its own selection produced.
C15_ObservationOnly ==
    /\ [](pc \in {"de_loop", "assigned"} => Len(plateau_check) = nit)
    /\ [][nit' = nit + 1 =>
             /\ Len(plateau_check') = Len(plateau_check) + 1
             /\ energy' <= energy
             /\ xk' = IF energy' < energy THEN better(sound, xk) ELSE xk
             /\ best_cost' = plateau_check'[nit']
             /\ best_cost' <= energy']_vars

\* Several generations observed, the solver's best vector having moved
C15_Witness ==
    /\ pc = "de_loop"
    /\ nit >= 2
    /\ Len(plateau_check) = nit
    /\ xk # X0(sound)

----------------------------------------------------------------------------
(* Claims about _process *)

Processing == call # None /\ call.fn = "_process"

\* C16: for an input with a non-zero peak the signal handed to the chain has
\* peak magnitude 0.75; whatever the chain returns, every sample of the returned
\* waveform has magnitude at most 1.0; and the caller's array holds what it held
\* at the call.
C16_NormalizedAndLimited ==
    Processing =>
        /\ (call.at # "fadeout" /\ MaxAbs(call.input) > 0) =>
              MaxAbs(call.handed.num) = 750 * call.handed.den
        /\ call.at = "return" =>
              \A i \in 1..Len(call.out) :
                  /\ call.out[i].den > 0
                  /\ Abs(call.out[i].num) <= 1000 * call.out[i].den
        /\ call.caller = call.input

\* A chain output above full scale has been limited: the returned waveform
\* has a sample of magnitude exactly 1.0, for an input that was normalised
C16_Witness ==
    /\ Processing /\ call.at = "return"
    /\ MaxAbs(call.input) > 0 /\ Len(call.input) = MaxInput
    /\ MaxAbs(call.fx) > FULL_SCALE
    /\ \E i \in 1..Len(call.out) : Abs(call.out[i].num) = 1000 * call.out[i].den

----------------------------------------------------------------------------
(* Claims about wood_hit *)

WoodDone == call # None /\ call.fn = "wood_hit" /\ call.out # None

\* C17: for parameters within _SYNTH_BOUNDS and each of the three layer
\* durations, wood_hit raises nothing, its noise band has
\* 0 < low < high < SR/2, and the envelope, every mode, the noise residual and
\* the returned waveform all have int(SR * dur) samples (11025, 3528, 8820).
C17_WoodHitCompletes ==
    WoodDone =>
        /\ call.out.error = "none"
        /\ 0 < call.out.band[1] /\ call.out.band[1] < call.out.band[2]
        /\ 2 * call.out.band[2] < SR
        /\ call.out.len = (SR * call.p.dur) \div 10000
        /\ call.out.len \in {11025, 3528, 8820}
        /\ call.out.env_len = call.out.len
        /\ call.out.noise_len = call.out.len
        /\ DOMAIN call.out.mode_len = 1..4
        /\ \A k \in DOMAIN call.out.mode_len : call.out.mode_len[k] = call.out.len

\* The clack layer rendered at the corner where the band is narrowest:
\* body_freq 1500 Hz, brightness 800 Hz
C17_Witness ==
    /\ WoodDone
    /\ call.p.dur = CLACK_DUR
    /\ call.out.band = <<750, 800>>
    /\ call.out.len = 3528

----------------------------------------------------------------------------
(* Claims about the noise residual of wood_hit *)

ResidualDone == call /= None /\ call.fn = "wood_hit_residual" /\ call.at = "return"

\* C18: the noise residual returned by wood_hit is zero at every sample where
\* the envelope is zero, in particular at every sample before the onset index.
C18_ResidualZeroWhereEnvelopeZero ==
    ResidualDone =>
        \A i \in Indices : call.main_env[i] = 0 => call.woody[i] = 0

\* The modal part is zero wherever the envelope is zero.
C18_ModalZeroWhereEnvelopeZero ==
    ResidualDone =>
        \A i \in Indices : call.main_env[i] = 0 => call.modal[i] = 0

\* The signal handed to the band-pass is zero before the onset; the filter's
\* backward pass is what carries it there.
C18_WindowedBeforeFilter ==
    ResidualDone =>
        \A i \in Indices : call.main_env[i] = 0 => call.raw[i] = 0

----------------------------------------------------------------------------
(* Claims about the two feature extractors *)

FeaturesDone == call /= None /\ call.fn = "analyze" /\ call.at = "return"

ReportedDecimals ==
    [f_centroid |-> 1, f_spread |-> 4, f_skewness |-> 2, f_kurtosis |-> 2,
     t_centroid |-> 1, t_spread |-> 1, t_skewness |-> 2, t_kurtosis |-> 2]

\* C19: for every waveform, each of the 8 features returned by
\* measure-refs.analyze equals the corresponding _quick_analyze feature rounded
\* to its reported number of decimals (1, 4, 2, 2, 1, 1, 2, 2).
C19_AnalyzeIsRoundedQuickAnalyze ==
    FeaturesDone =>
        \A j \in 1..Len(FeatureKeys) : LET k == FeatureKeys[j] IN
            /\ call.quick[k].ok
            /\ call.measured[k] = round(in_units(call.quick[k]), ReportedDecimals[k])

\* A waveform whose rounded features differ from the unrounded ones: rounding
\* has acted on a feature that is not already a multiple of its last decimal.
C19_Witness ==
    /\ FeaturesDone
    /\ \E j \in 1..Len(FeatureKeys) :
          call.measured[FeatureKeys[j]] /= in_units(call.quick[FeatureKeys[j]])
    /\ \E j \in 1..Len(FeatureKeys) : call.measured[FeatureKeys[j]].v /= 0
    /\ \E i \in 1..Len(call.samples) : call.samples[i] /= 0

----------------------------------------------------------------------------
(* Claims about the layout of the optimizer vector *)

\* The globals as one record, shaped like what the objective builds
Returned ==
    IF sound = "move"
    THEN [params |-> MOVE_PARAMS, chain |-> MOVE_CHAIN]
    ELSE [clack_p |-> CAPTURE_CLACK, thud_p |-> CAPTURE_THUD,
          chain |-> CAPTURE_CHAIN]

\* bounds and warm start laid out as 7 synth values per layer, then 3 chain values
LayoutOf(s, layers) ==
    /\ Len(bounds(s)) = 7 * layers + 3
    /\ Len(X0(s)) = Len(bounds(s))
    /\ \A l \in 0..(layers - 1) : Slice(bounds(s), 7 * l, 7 * l + 7) = _SYNTH_BOUNDS
    /\ Slice(bounds(s), 7 * layers, 7 * layers + 3) = _CHAIN_BOUNDS
    /\ Slice(X0(s), 7 * layers, 7 * layers + 3) = _CHAIN_X0
    /\ InBounds(X0(s), bounds(s))

\* C20: the bounds list, the warm start, the objective's unpacking and the
\* unpacking of the final result use one index layout (move: 7 synth values then
\* 3 chain values; capture: 7 clack, 7 thud, 3 chain) and the same layer
\* durations, so the parameters and chain returned by a search are those the
\* objective built for the result vector.
C20_OneLayout ==
    /\ LayoutOf("move", 1) /\ LayoutOf("capture", 2)
    /\ (pc = "assigned" /\ result # None) =>
          /\ Len(result.x) = Len(bounds(sound))
          /\ Returned = objective_inputs(sound, result.x)

\* A capture search has returned a vector whose clack and thud slices differ
C20_Witness ==
    /\ pc = "assigned" /\ sound = "capture" /\ result # None
    /\ Slice(result.x, 0, 7) # Slice(result.x, 7, 14)
    /\ CAPTURE_CLACK # None /\ CAPTURE_THUD # None
    /\ CAPTURE_CLACK.body_freq # CAPTURE_THUD.body_freq

----------------------------------------------------------------------------
(* Claims about silence trimming *)

Trimming == call /= None /\ call.fn = "write"

TrailTrimmed == Trimming /\ call.at \in {"limit", "lead_loop", "lead_slice", "return"}

TrimReturned == Trimming /\ call.at = "return"

\* the trailing trim kept a slice from the start that holds every audible sample
TrailKeepsAudible ==
    TrailTrimmed =>
        /\ Len(call.trimmed) <= Len(call.fx)
        /\ call.trimmed = SubSeq(call.fx, 1, Len(call.trimmed))
        /\ \A i \in 1..Len(call.fx) : ~silent(call.fx[i]) => i <= Len(call.trimmed)

\* the leading strip kept a slice up to the end that holds every audible sample
LeadKeepsAudible ==
    TrimReturned =>
        LET cut == Len(call.out) - Len(call.written)
        IN  /\ cut >= 0
            /\ call.written = SubSeq(call.out, cut + 1, Len(call.out))
            /\ \A i \in 1..Len(call.out) : ~silent_fraction(call.out[i]) => i > cut

\* C21: for any non-empty waveform the trailing trim loop of _process and the
\* leading strip loop of write both terminate, each keeps a contiguous slice,
\* and every sample at or above the silence floor before a trim is still
\* present after it.
C21_TrimKeepsAudible ==
    /\ [](TrailKeepsAudible /\ LeadKeepsAudible)
    /\ <>TrimReturned

\* Both trims have cut silence away and an audible sample remains
C21_Witness ==
    /\ TrimReturned
    /\ Len(call.trimmed) < Len(call.fx)
    /\ Len(call.written) < Len(call.out)
    /\ \E i \in 1..Len(call.written) : ~silent_fraction(call.written[i])

----------------------------------------------------------------------------
(* Claims about the cache under interruption *)

AllUnset ==
    /\ MOVE_PARAMS = None /\ MOVE_CHAIN = None
    /\ CAPTURE_CLACK = None /\ CAPTURE_THUD = None /\ CAPTURE_CHAIN = None

AllSet ==
    /\ MOVE_PARAMS # None /\ MOVE_CHAIN # None
    /\ CAPTURE_CLACK # None /\ CAPTURE_THUD # None /\ CAPTURE_CHAIN # None

\* C22: whenever control is outside _ensure_optimized, also after a search was
\* interrupted or raised, the five cached values are all unset or all set, and
\* no caller's non-None assertion fails.
C22_CacheAllOrNothing ==
    pc = "idle" => (AllUnset \/ AllSet) /\ exc # "AssertionError"

\* The move values are cached, the capture values are not, and capture() has
\* failed its assertion
C22_HalfFilled ==
    /\ pc = "idle"
    /\ MOVE_PARAMS # None /\ MOVE_CHAIN # None
    /\ CAPTURE_CLACK = None /\ CAPTURE_THUD = None /\ CAPTURE_CHAIN = None
    /\ exc = "AssertionError"

----------------------------------------------------------------------------
(* Claims about the onset of each layer *)

EnvelopeDone == call /= None /\ call.fn = "impact_env" /\ call.at = "return"

\* C23: for every parameter vector within the search bounds, the onset index
\* of each rendered layer is below the layer's length in samples, and no
\* layer's envelope is identically zero.
C23_OnsetInsideLayer ==
    EnvelopeDone => call.onset_idx < call.len /\ ~call.zero

\* The move layer and the thud are longer than the latest onset of the bounds.
C23_MoveAndThudSound ==
    (EnvelopeDone /\ call.layer \in {"move", "thud"}) =>
        call.onset_idx < call.len /\ ~call.zero

\* A clack whose onset, inside the bounds, lies at or after its last sample
C23_SilentClack ==
    /\ EnvelopeDone
    /\ call.layer = "clack"
    /\ InBounds(<<call.p.onset>>, <<_SYNTH_BOUNDS[5]>>)
    /\ call.onset_idx >= call.len
    /\ call.zero

====
